---- MODULE Spec2Model ----
(***************************************************************************)
(* Model of src/main.py: SlackNotifier, a command-line notifier that keeps *)
(* one run record per CircleCI workflow as a bot message in a Slack        *)
(* storage channel and one outward status message in the main channel.     *)
(*                                                                         *)
(* Every update() invocation is an independent process.  Each Slack API    *)
(* call (conversations.history, chat.delete, chat.update, chat.postMessage)*)
(* is one atomic step; the local computation between two calls belongs to  *)
(* the step of the call that precedes it.                                  *)
(*                                                                         *)
(* Time is in seconds.  A message ts is the Slack server time of its post, *)
(* unique within a channel.  The phase/record timestamps started_at,       *)
(* last_updated, created_at and timestamp are written but never read by    *)
(* _cleanup_and_find_pipeline, _update_phase_data, _save_pipeline_data or  *)
(* update, and are left out of the records.                                *)
(***************************************************************************)
EXTENDS Integers, Sequences, FiniteSets, TLC

\* ------------------------------------------------------------------ bounds
\* Slack API calls that fail in one behaviour.
MaxFail == 1
\* Long waits (about ten hours) in one behaviour.
MaxJumps == 1
\* Messages already in the storage channel when the first invocation starts.
MaxPre == 2
\* Events applied in a row in the merge-only specification.
MaxEvents == 3
\* Most messages in the scan of a cleanup pass checked on its own.
MaxScan == 3
\* Latest ts of a message in such a scan; the pass runs when the message of
\* ts 1, and no other, is older than ten hours.
MaxTs == 4

\* --------------------------------------------------------- program constants
\* 10 * 60 * 60 seconds.
ten_hours == 36000
\* None, as message_ts and _storage_ts hold it before a message exists.
None == 0

workflow_id == "W1"
OtherWorkflow == "W2"

colors ==
  [start |-> "#2196F3", progress |-> "#FF9800", success |-> "#4CAF50",
   failure |-> "#F44336", skipped |-> "#9E9E9E"]

\* self.colors.get(color_key, self.colors["progress"])
ColorOf(color_key) ==
  IF color_key \in DOMAIN colors THEN colors[color_key] ELSE colors["progress"]

\* The update() invocations: independent processes on any executors.
Procs == {1, 2}

\* ------------------------------------------------------------------ events
\* The arguments of update(): phase, status, step, color, is_final.
Event(phase, status, step, color, is_final) ==
  [phase |-> phase, status |-> status, step |-> step, color |-> color,
   is_final |-> is_final]

\* Events of the concurrent specification.
Events ==
  { Event("build", "Building", "compile", "progress", FALSE),
    Event("build", "Build failed", "compile error", "failure", TRUE),
    Event("deploy", "Deploying", "apply", "start", FALSE) }

\* Events of the merge-only specification: every combination.
MergeEvents ==
  { Event(p, s, st, c, f) :
      p \in {"build", "deploy"}, s \in {"Running", "Stopped"},
      st \in {"compile", "retry"}, c \in {"success", "failure", "mauve"},
      f \in BOOLEAN }

\* ------------------------------------------------------------- run state
\* The dict _get_pipeline_data returns when no record is found.
FreshData ==
  [workflow_id |-> workflow_id, phases |-> <<>>, message_ts |-> None,
   storage_ts |-> None]

NewPhase(e) ==
  [name |-> e.phase, status |-> e.status, color |-> ColorOf(e.color),
   is_final |-> e.is_final, steps |-> <<e.step>>]

\* Index of the first phase named name, 0 when there is none.
RECURSIVE FindPhase(_, _, _)
FindPhase(phases, name, k) ==
  IF k > Len(phases) THEN 0
  ELSE IF phases[k].name = name THEN k
  ELSE FindPhase(phases, name, k + 1)

Range(s) == { s[k] : k \in DOMAIN s }

\* Mutant: the failure check of line 230 is dropped.
UpdateFoundNoLock(p, e) ==
  LET q == [p EXCEPT !.status = e.status, !.color = ColorOf(e.color),
                     !.is_final = e.is_final]
  IN  IF e.step \notin Range(q.steps)
      THEN [q EXCEPT !.steps = Append(q.steps, e.step)]
      ELSE q

\* Mutant: the step is appended without the membership test of line 238.
UpdateFoundAppendAlways(p, e) ==
  LET q == IF p.color # colors["failure"]
           THEN [p EXCEPT !.status = e.status, !.color = ColorOf(e.color),
                          !.is_final = e.is_final]
           ELSE p
  IN  [q EXCEPT !.steps = Append(q.steps, e.step)]

\* Mutant: lines 235-239 moved under the failure check of line 230, so a
\* failure-locked phase takes no more steps.
UpdateFoundLockedSteps(p, e) ==
  IF p.color # colors["failure"]
  THEN LET q == [p EXCEPT !.status = e.status, !.color = ColorOf(e.color),
                          !.is_final = e.is_final]
       IN  IF e.step \notin Range(q.steps)
           THEN [q EXCEPT !.steps = Append(q.steps, e.step)]
           ELSE q
  ELSE p

\* Mutant: the event's step replaces the steps of the phase.
UpdateFoundResetSteps(p, e) ==
  LET q == IF p.color # colors["failure"]
           THEN [p EXCEPT !.status = e.status, !.color = ColorOf(e.color),
                          !.is_final = e.is_final]
           ELSE p
  IN  [q EXCEPT !.steps = <<e.step>>]

\* Lines 227-241: the update of the phase that was found.
UpdateFound(p, e) ==
  LET q == IF p.color # colors["failure"]
           THEN [p EXCEPT !.status = e.status, !.color = ColorOf(e.color),
                          !.is_final = e.is_final]
           ELSE p
  IN  IF e.step \notin Range(q.steps)
      THEN [q EXCEPT !.steps = Append(q.steps, e.step)]
      ELSE q

\* Mutant: a new phase is inserted at the front of phases.
UpdatePhasesPrepend(phases, e) ==
  LET k == FindPhase(phases, e.phase, 1)
  IN  IF k # 0
      THEN [phases EXCEPT ![k] = UpdateFound(phases[k], e)]
      ELSE <<NewPhase(e)>> \o phases

\* Mutant: a phase is appended for every event.
UpdatePhasesAlwaysAppend(phases, e) == Append(phases, NewPhase(e))

\* _update_phase_data on the phases list.
UpdatePhases(phases, e) ==
  LET k == FindPhase(phases, e.phase, 1)
  IN  IF k # 0
      THEN [phases EXCEPT ![k] = UpdateFound(phases[k], e)]
      ELSE Append(phases, NewPhase(e))

UpdatePhaseData(data, e) == [data EXCEPT !.phases = UpdatePhases(data.phases, e)]

\* ------------------------------------------------------- storage channel
\* The text of a storage message, as json.loads sees it:
\*   "object"    a JSON object: the run record json.dumps(save_data) wrote
\*   "notjson"   not JSON: json.loads raises JSONDecodeError
\*   "nonobject" JSON, but no object (a number, a list): data.get raises
\*               AttributeError
Text(kind, wf, phases, message_ts) ==
  [kind |-> kind, workflow_id |-> wf, phases |-> phases, message_ts |-> message_ts]

\* Mutant: message_ts is filtered out of save_data along with _storage_ts.
DumpsNoMessage(data) == Text("object", data.workflow_id, data.phases, None)

\* json.dumps(save_data): every key of data but _storage_ts.
Dumps(data) == Text("object", data.workflow_id, data.phases, data.message_ts)

Message(ts, bot, text) == [ts |-> ts, bot |-> bot, text |-> text]

\* Messages other users and bots may have left in the storage channel.
PreMessages ==
  { Message(1, FALSE, Text("notjson", "", <<>>, None)),
    Message(2, TRUE, Text("notjson", "", <<>>, None)),
    Message(3, TRUE, Text("object", OtherWorkflow, <<NewPhase(
        Event("build", "Building", "compile", "progress", FALSE))>>, None)) }

\* The record an earlier invocation of the run has left, when there was one:
\* update("build", "Building", "compile") on a channel with no record of the
\* run posts the record, and the outward message one second later.
EarlierRecordTs == Cardinality(PreMessages) + 1
EarlierMessageTs == EarlierRecordTs + 1
EarlierRecord ==
  Message(EarlierRecordTs, TRUE,
          Text("object", workflow_id,
               <<NewPhase(Event("build", "Building", "compile", "progress", FALSE))>>,
               EarlierMessageTs))

\* The latest message another bot may have left: JSON that is no object.
LatestMessage == Message(EarlierMessageTs + 1, TRUE, Text("nonobject", "", <<>>, None))

\* The time of the first invocation: one second after the latest message.
StartTime == LatestMessage.ts + 1

\* conversations.history lists the messages of the channel newest first.
RECURSIVE History(_)
History(S) ==
  IF S = {} THEN <<>>
  ELSE LET latest == CHOOSE m \in S : \A o \in S : o.ts <= m.ts
       IN  <<latest>> \o History(S \ {latest})

\* msg_time < ten_hours_ago, with ten_hours_ago = current_time - 10*60*60
Expired(msg, current_time) == msg.ts < current_time - ten_hours

\* The loop of _cleanup_and_find_pipeline over messages[k..]: pipeline_msg is
\* <<>> (None) or <<msg>>; aborted when an exception leaves the loop.
RECURSIVE CleanupLoop(_, _, _, _, _)
CleanupLoop(messages, k, current_time, pipeline_msg, to_delete) ==
  IF k > Len(messages)
  THEN [pipeline_msg |-> pipeline_msg, to_delete |-> to_delete, aborted |-> FALSE]
  ELSE
    LET msg == messages[k]
        skip == CleanupLoop(messages, k + 1, current_time, pipeline_msg, to_delete)
    IN  IF ~msg.bot THEN skip
        ELSE IF Expired(msg, current_time)
        THEN CleanupLoop(messages, k + 1, current_time, pipeline_msg,
                         Append(to_delete, msg.ts))
        ELSE IF msg.text.kind = "notjson" THEN skip
        ELSE IF msg.text.kind = "nonobject"
        THEN [pipeline_msg |-> pipeline_msg, to_delete |-> to_delete, aborted |-> TRUE]
        ELSE IF msg.text.workflow_id # workflow_id THEN skip
        ELSE IF pipeline_msg = <<>> \/ msg.ts > pipeline_msg[1].ts
        THEN CleanupLoop(messages, k + 1, current_time, <<msg>>,
                         IF pipeline_msg # <<>>
                         THEN Append(to_delete, pipeline_msg[1].ts)
                         ELSE to_delete)
        ELSE CleanupLoop(messages, k + 1, current_time, pipeline_msg,
                         Append(to_delete, msg.ts))

\* Mutant: the record selected is put on the delete list as well.
CleanupDeletesReturned(messages, current_time) ==
  LET r == CleanupLoop(messages, 1, current_time, <<>>, <<>>)
  IN  IF r.pipeline_msg = <<>> THEN r
      ELSE [r EXCEPT !.to_delete = Append(@, r.pipeline_msg[1].ts)]

Cleanup(messages, current_time) == CleanupLoop(messages, 1, current_time, <<>>, <<>>)

\* Mutant: the record found is loaded with message_ts reset to None.
GetPipelineDataNoMessage(pipeline_msg) ==
  IF pipeline_msg # <<>>
  THEN [workflow_id |-> pipeline_msg[1].text.workflow_id,
        phases |-> pipeline_msg[1].text.phases,
        message_ts |-> None,
        storage_ts |-> pipeline_msg[1].ts]
  ELSE FreshData

\* _get_pipeline_data: the record found, with its ts as _storage_ts, or a
\* fresh run state.
GetPipelineData(pipeline_msg) ==
  IF pipeline_msg # <<>>
  THEN [workflow_id |-> pipeline_msg[1].text.workflow_id,
        phases |-> pipeline_msg[1].text.phases,
        message_ts |-> pipeline_msg[1].text.message_ts,
        storage_ts |-> pipeline_msg[1].ts]
  ELSE FreshData

\* Mutant: the run state is loaded and the event is dropped.
MergedNotApplied(pipeline_msg, e) == GetPipelineData(pipeline_msg)

\* update(), lines 320-322: load the run state and merge the event.
Merged(pipeline_msg, e) == UpdatePhaseData(GetPipelineData(pipeline_msg), e)

\* ------------------------------------------------------------------ state
VARIABLES
  now,        \* the clock: time.time() and the Slack server time
  jumps,      \* long waits so far
  fails,      \* failed Slack calls so far
  storage,    \* the messages of the storage channel
  mainMsgs,   \* the ts of the messages created in the main channel
  gone,       \* the ts of those a user has deleted since
  pc,         \* where each invocation is
  ev,         \* the event each invocation was called with
  scanned,    \* the messages _get_all_storage_messages returned to it
  scanOk,     \* conversations.history succeeded for it
  scanNow,    \* current_time of its cleanup pass
  found,      \* pipeline_msg, as its cleanup pass returned it
  todel,      \* to_delete, the part not yet issued
  delIssued,  \* the ts it has issued chat.delete for
  data,       \* pipeline_data
  pub,        \* the call it issued to the main channel
  clean,      \* no Slack call of the invocation has failed
  doneBefore, \* the invocations that had ended when it started
  wroteBefore,\* the invocations that had written a record when it scanned
  wrote,      \* the invocations that have written a record
  mdata,      \* merge-only specification: the run state
  mprev,      \* merge-only specification: the run state before the last event
  mev,        \* merge-only specification: the last event applied
  mcount,     \* merge-only specification: events applied
  cmessages,  \* cleanup-only specification: the messages of the scan, in order
  cpass,      \* cleanup-only specification: the pass, once it has run
  cstore      \* cleanup-only specification: the storage channel

mergeVars == <<mdata, mprev, mev, mcount>>
passVars == <<cmessages, cpass, cstore>>
envVars == <<now, jumps, fails, storage, mainMsgs, gone>>
procVars ==
  <<pc, ev, scanned, scanOk, scanNow, found, todel, delIssued, data, pub, clean,
    doneBefore, wroteBefore, wrote>>
vars == <<envVars, procVars, mergeVars, passVars>>

NoCall == [kind |-> "none", ts |-> None]
NoEvent == Event("", "", "", "", FALSE)
NoPass ==
  [pipeline_msg |-> <<>>, to_delete |-> <<>>, aborted |-> FALSE, state |-> "none",
   issued |-> 0]

Init ==
  /\ now = StartTime
  /\ jumps = 0
  /\ fails = 0
  /\ storage \in { S \in SUBSET (PreMessages \cup {EarlierRecord, LatestMessage}) :
                       Cardinality(S) <= MaxPre }
  /\ mainMsgs = IF EarlierRecord \in storage THEN {EarlierMessageTs} ELSE {}
  /\ gone \in SUBSET mainMsgs
  /\ pc = [i \in Procs |-> "idle"]
  /\ ev = [i \in Procs |-> NoEvent]
  /\ scanned = [i \in Procs |-> {}]
  /\ scanOk = [i \in Procs |-> TRUE]
  /\ scanNow = [i \in Procs |-> 0]
  /\ found = [i \in Procs |-> <<>>]
  /\ todel = [i \in Procs |-> <<>>]
  /\ delIssued = [i \in Procs |-> {}]
  /\ data = [i \in Procs |-> FreshData]
  /\ pub = [i \in Procs |-> NoCall]
  /\ clean = [i \in Procs |-> TRUE]
  /\ doneBefore = [i \in Procs |-> {}]
  /\ wroteBefore = [i \in Procs |-> {}]
  /\ wrote = {}
  /\ mdata = FreshData
  /\ mprev = FreshData
  /\ mev = NoEvent
  /\ mcount = 0
  /\ cmessages = <<>>
  /\ cpass = NoPass
  /\ cstore = {}

\* A Slack call either succeeds or fails (network, HTTP or API error).
CallOutcome(ok) == ok \/ fails < MaxFail
Count(ok) == IF ok THEN fails ELSE fails + 1

Ended(i) == pc[i] \in {"done", "failed"}

\* update() up to the end of the scan loop of _cleanup_and_find_pipeline:
\* conversations.history (a failure is logged and the pass goes on with no
\* message), then the loop over the messages.
Scan(i) ==
  /\ pc[i] = "idle"
  /\ \A j \in Procs : j < i => pc[j] # "idle"
  /\ \E e \in Events, ok \in BOOLEAN :
       /\ CallOutcome(ok)
       /\ fails' = Count(ok)
       /\ clean' = [clean EXCEPT ![i] = ok]
       /\ ev' = [ev EXCEPT ![i] = e]
       /\ LET messages == IF ok THEN History(storage) ELSE <<>>
                r == Cleanup(messages, now)
            IN  /\ scanned' = [scanned EXCEPT ![i] = Range(messages)]
                /\ scanOk' = [scanOk EXCEPT ![i] = ok]
                /\ scanNow' = [scanNow EXCEPT ![i] = now]
                /\ found' = [found EXCEPT ![i] = r.pipeline_msg]
                /\ todel' = [todel EXCEPT ![i] = IF r.aborted THEN <<>> ELSE r.to_delete]
                /\ pc' = [pc EXCEPT ![i] = IF r.aborted THEN "failed"
                                           ELSE IF r.to_delete = <<>> THEN "save"
                                           ELSE "delete"]
                /\ data' = [data EXCEPT ![i] =
                              IF ~r.aborted /\ r.to_delete = <<>>
                              THEN Merged(r.pipeline_msg, e) ELSE @]
  /\ doneBefore' = [doneBefore EXCEPT ![i] = { j \in Procs : Ended(j) }]
  /\ wroteBefore' = [wroteBefore EXCEPT ![i] = wrote]
  /\ UNCHANGED <<now, jumps, storage, mainMsgs, gone, delIssued, pub, wrote, mergeVars,
                 passVars>>

\* Mutant: a failed chat.delete ends the invocation.
DeleteAbortOnFailure(i) ==
  /\ pc[i] = "delete"
  /\ LET ts == Head(todel[i])
         there == \E m \in storage : m.ts = ts
     IN  /\ \E ok \in BOOLEAN :
              /\ CallOutcome(ok)
              /\ fails' = Count(ok)
              /\ IF ok /\ there
                 THEN /\ storage' = { m \in storage : m.ts # ts }
                      /\ clean' = clean
                      /\ todel' = [todel EXCEPT ![i] = Tail(@)]
                      /\ IF Tail(todel[i]) = <<>>
                         THEN /\ pc' = [pc EXCEPT ![i] = "save"]
                              /\ data' = [data EXCEPT ![i] = Merged(found[i], ev[i])]
                         ELSE UNCHANGED <<pc, data>>
                 ELSE /\ storage' = storage
                      /\ clean' = [clean EXCEPT ![i] = FALSE]
                      /\ todel' = [todel EXCEPT ![i] = <<>>]
                      /\ pc' = [pc EXCEPT ![i] = "failed"]
                      /\ data' = data
         /\ delIssued' = [delIssued EXCEPT ![i] = @ \cup {ts}]
  /\ UNCHANGED <<now, jumps, mainMsgs, gone, ev, scanned, scanOk, scanNow, found, pub,
                 doneBefore, wroteBefore, wrote, mergeVars, passVars>>

\* One chat.delete of the delete loop; a failure is logged and the loop goes
\* on.  After the last one: _get_pipeline_data and _update_phase_data.
Delete(i) ==
  /\ pc[i] = "delete"
  /\ LET ts == Head(todel[i])
         there == \E m \in storage : m.ts = ts
     IN  /\ \E ok \in BOOLEAN :
              /\ CallOutcome(ok)
              /\ fails' = Count(ok)
              /\ IF ok /\ there
                 THEN /\ storage' = { m \in storage : m.ts # ts }
                      /\ clean' = clean
                 ELSE /\ storage' = storage
                      /\ clean' = [clean EXCEPT ![i] = FALSE]
         /\ delIssued' = [delIssued EXCEPT ![i] = @ \cup {ts}]
         /\ todel' = [todel EXCEPT ![i] = Tail(@)]
         /\ IF Tail(todel[i]) = <<>>
            THEN /\ pc' = [pc EXCEPT ![i] = "save"]
                 /\ data' = [data EXCEPT ![i] = Merged(found[i], ev[i])]
            ELSE UNCHANGED <<pc, data>>
  /\ UNCHANGED <<now, jumps, mainMsgs, gone, ev, scanned, scanOk, scanNow, found, pub,
                 doneBefore, wroteBefore, wrote, mergeVars, passVars>>

\* The storage channel after chat.update of the message ts with text.
Updated(ts, text) ==
  { IF m.ts = ts THEN [m EXCEPT !.text = text] ELSE m : m \in storage }

\* _save_pipeline_data: chat.update of the record when _storage_ts is set
\* (an error when the message is gone), chat.postMessage otherwise.  next is
\* where the invocation goes on after a success; a failure ends it (exit 1).
SavePipelineData(i, next) ==
  \E ok \in BOOLEAN :
    /\ CallOutcome(ok)
    /\ fails' = Count(ok)
    /\ IF data[i].storage_ts # None
       THEN IF ok /\ \E m \in storage : m.ts = data[i].storage_ts
            THEN /\ storage' = Updated(data[i].storage_ts, Dumps(data[i]))
                 /\ pc' = [pc EXCEPT ![i] = next]
                 /\ wrote' = wrote \cup {i}
                 /\ UNCHANGED <<now, data, clean>>
            ELSE /\ pc' = [pc EXCEPT ![i] = "failed"]
                 /\ clean' = [clean EXCEPT ![i] = FALSE]
                 /\ UNCHANGED <<now, storage, data, wrote>>
       ELSE IF ok
            THEN /\ storage' = storage \cup {Message(now, TRUE, Dumps(data[i]))}
                 /\ data' = [data EXCEPT ![i].storage_ts = now]
                 /\ now' = now + 1
                 /\ pc' = [pc EXCEPT ![i] = next]
                 /\ wrote' = wrote \cup {i}
                 /\ UNCHANGED clean
            ELSE /\ pc' = [pc EXCEPT ![i] = "failed"]
                 /\ clean' = [clean EXCEPT ![i] = FALSE]
                 /\ UNCHANGED <<now, storage, data, wrote>>

\* update(), line 324.
Save(i) ==
  /\ pc[i] = "save"
  /\ SavePipelineData(i, "publish")
  /\ UNCHANGED <<jumps, mainMsgs, gone, ev, scanned, scanOk, scanNow, found, todel,
                 delIssued, pub, doneBefore, wroteBefore, mergeVars, passVars>>

\* Mutant: after a failed chat.postMessage the invocation goes on and saves
\* the ts it expected as message_ts.
PublishPersistUnconditionally(i) ==
  /\ pc[i] = "publish"
  /\ \E ok \in BOOLEAN :
       /\ CallOutcome(ok)
       /\ fails' = Count(ok)
       /\ IF data[i].message_ts # None
          THEN /\ pub' = [pub EXCEPT ![i] = [kind |-> "update", ts |-> data[i].message_ts]]
               /\ IF ok /\ data[i].message_ts \in mainMsgs \ gone
                  THEN /\ pc' = [pc EXCEPT ![i] = "done"]
                       /\ UNCHANGED clean
                  ELSE /\ pc' = [pc EXCEPT ![i] = "failed"]
                       /\ clean' = [clean EXCEPT ![i] = FALSE]
               /\ UNCHANGED <<now, mainMsgs, data>>
          ELSE /\ pub' = [pub EXCEPT ![i] = [kind |-> "post", ts |-> IF ok THEN now ELSE None]]
               /\ mainMsgs' = IF ok THEN mainMsgs \cup {now} ELSE mainMsgs
               /\ data' = [data EXCEPT ![i].message_ts = now]
               /\ now' = now + 1
               /\ pc' = [pc EXCEPT ![i] = "save2"]
               /\ clean' = [clean EXCEPT ![i] = @ /\ ok]
  /\ UNCHANGED <<jumps, storage, gone, ev, scanned, scanOk, scanNow, found, todel,
                 delIssued, doneBefore, wroteBefore, wrote, mergeVars, passVars>>

\* update(), lines 333-342: chat.update of the outward message when
\* message_ts is set (an error when a user has deleted the message),
\* chat.postMessage otherwise.
Publish(i) ==
  /\ pc[i] = "publish"
  /\ \E ok \in BOOLEAN :
       /\ CallOutcome(ok)
       /\ fails' = Count(ok)
       /\ IF data[i].message_ts # None
          THEN /\ pub' = [pub EXCEPT ![i] = [kind |-> "update", ts |-> data[i].message_ts]]
               /\ IF ok /\ data[i].message_ts \in mainMsgs \ gone
                  THEN /\ pc' = [pc EXCEPT ![i] = "done"]
                       /\ UNCHANGED clean
                  ELSE /\ pc' = [pc EXCEPT ![i] = "failed"]
                       /\ clean' = [clean EXCEPT ![i] = FALSE]
               /\ UNCHANGED <<now, mainMsgs, data>>
          ELSE IF ok
               THEN /\ pub' = [pub EXCEPT ![i] = [kind |-> "post", ts |-> now]]
                    /\ mainMsgs' = mainMsgs \cup {now}
                    /\ data' = [data EXCEPT ![i].message_ts = now]
                    /\ now' = now + 1
                    /\ pc' = [pc EXCEPT ![i] = "save2"]
                    /\ UNCHANGED clean
               ELSE /\ pub' = [pub EXCEPT ![i] = [kind |-> "post", ts |-> None]]
                    /\ pc' = [pc EXCEPT ![i] = "failed"]
                    /\ clean' = [clean EXCEPT ![i] = FALSE]
                    /\ UNCHANGED <<now, mainMsgs, data>>
  /\ UNCHANGED <<jumps, storage, gone, ev, scanned, scanOk, scanNow, found, todel,
                 delIssued, doneBefore, wroteBefore, wrote, mergeVars, passVars>>

\* update(), line 343: the record is saved again with the new message_ts.
Save2(i) ==
  /\ pc[i] = "save2"
  /\ SavePipelineData(i, "done")
  /\ UNCHANGED <<jumps, mainMsgs, gone, ev, scanned, scanOk, scanNow, found, todel,
                 delIssued, pub, doneBefore, wroteBefore, mergeVars, passVars>>

\* Time passes between two invocations: one second short of ten hours, so
\* that a message posted a second ago is exactly ten hours old and every older
\* one is older than ten hours.  No invocation lasts that long: it makes a
\* handful of calls, each with timeout=30.  The wait is of interest when there
\* are messages to grow old and an invocation still to come.
Jump ==
  /\ jumps < MaxJumps
  /\ \A i \in Procs : pc[i] = "idle" \/ Ended(i)
  /\ \E i \in Procs : pc[i] = "idle"
  /\ storage # {}
  /\ jumps' = jumps + 1
  /\ now' = now + ten_hours - 1
  /\ UNCHANGED <<fails, storage, mainMsgs, gone, procVars, mergeVars, passVars>>

Next ==
  \/ \E i \in Procs : Scan(i)
  \/ \E i \in Procs : Delete(i)
  \/ \E i \in Procs : Save(i)
  \/ \E i \in Procs : Publish(i)
  \/ \E i \in Procs : Save2(i)
  \/ Jump

Spec == Init /\ [][Next]_vars

\* ------------------------------------------------ merge-only specification
\* _update_phase_data applied to the run state of one run, event after event.
ApplyEvent(e) ==
  /\ mcount < MaxEvents
  /\ mprev' = mdata
  /\ mdata' = UpdatePhaseData(mdata, e)
  /\ mev' = e
  /\ mcount' = mcount + 1
  /\ UNCHANGED <<envVars, procVars, passVars>>

NextMerge == \E e \in MergeEvents : ApplyEvent(e)

InitMerge == Init /\ storage = {}

SpecMerge == InitMerge /\ [][NextMerge]_vars

\* ---------------------------------------------- cleanup-only specification
\* _cleanup_and_find_pipeline on a scan of any messages in any order.
PassTime == ten_hours + 2

ScanTexts ==
  { Text("notjson", "", <<>>, None), Text("nonobject", "", <<>>, None),
    Text("object", workflow_id, <<>>, None), Text("object", OtherWorkflow, <<>>, None) }

\* What a scan may hold: bot messages of every kind, and a user's message
\* with the text of a run record.
ScanMessages ==
  { Message(ts, TRUE, text) : ts \in 1..MaxTs, text \in ScanTexts }
    \cup { Message(ts, FALSE, Text("object", workflow_id, <<>>, None)) : ts \in 1..MaxTs }

\* conversations.history returns one more message; no two have the same ts.
Receive(m) ==
  /\ cpass.state = "none"
  /\ Len(cmessages) < MaxScan
  /\ \A k \in 1..Len(cmessages) : cmessages[k].ts # m.ts
  /\ cmessages' = Append(cmessages, m)
  /\ cstore' = cstore \cup {m}
  /\ UNCHANGED <<cpass, envVars, procVars, mergeVars>>

\* The loop over the messages, lines 139-165.
CleanupPass ==
  /\ cpass.state = "none"
  /\ LET r == Cleanup(cmessages, PassTime)
     IN  cpass' = [pipeline_msg |-> r.pipeline_msg, to_delete |-> r.to_delete,
                   aborted |-> r.aborted, issued |-> 0,
                   state |-> IF r.aborted THEN "aborted"
                             ELSE IF r.to_delete = <<>> THEN "returned"
                             ELSE "deleting"]
  /\ UNCHANGED <<cmessages, cstore, envVars, procVars, mergeVars>>

\* One chat.delete of the delete loop, lines 167-175: it succeeds or fails,
\* and the loop goes on.
PassDelete ==
  /\ cpass.state = "deleting"
  /\ LET ts == cpass.to_delete[cpass.issued + 1]
     IN  \E ok \in BOOLEAN :
           cstore' = IF ok THEN { m \in cstore : m.ts # ts } ELSE cstore
  /\ cpass' = [cpass EXCEPT !.issued = @ + 1,
                            !.state = IF cpass.issued + 1 = Len(cpass.to_delete)
                                      THEN "returned" ELSE "deleting"]
  /\ UNCHANGED <<cmessages, envVars, procVars, mergeVars>>

NextCleanup ==
  \/ \E m \in ScanMessages : Receive(m)
  \/ CleanupPass
  \/ PassDelete

InitCleanup == Init /\ storage = {}

SpecCleanup == InitCleanup /\ [][NextCleanup]_vars

\* ---------------------------------------------------------------- claims
FailureColor == colors["failure"]

\* The run records of the invoking run in the storage channel.
IsRunRecord(m) == m.bot /\ m.text.kind = "object" /\ m.text.workflow_id = workflow_id
RunRecords == { m \in storage : IsRunRecord(m) }

\* The invocation has merged its event into pipeline_data.
HasMerged(i) == data[i].phases # <<>>

\* Every invocation so far ran alone: it started after the others had ended.
Sequential ==
  \A i, j \in Procs :
    i # j /\ pc[i] # "idle" /\ pc[j] # "idle" => i \in doneBefore[j] \/ j \in doneBefore[i]

\* The cleanup pass of invocation j found no record of the run older than
\* ten hours.
InWindow(j) == \A m \in scanned[j] : IsRunRecord(m) => ~Expired(m, scanNow[j])

PrevIndex == FindPhase(mprev.phases, mev.phase, 1)

\* C7. New-phase creation: an event whose phase name is not in the run state
\* appends exactly one phase at the end of phases, with steps = [step] and the
\* event's status, color and is_final, and leaves every existing phase
\* unchanged.
NewPhaseCreation ==
  mcount > 0 /\ PrevIndex = 0 =>
    LET n == Len(mprev.phases)
    IN  /\ Len(mdata.phases) = n + 1
        /\ \A k \in 1..n : mdata.phases[k] = mprev.phases[k]
        /\ mdata.phases[n + 1].name = mev.phase
        /\ mdata.phases[n + 1].status = mev.status
        /\ mdata.phases[n + 1].color = ColorOf(mev.color)
        /\ mdata.phases[n + 1].is_final = mev.is_final
        /\ mdata.phases[n + 1].steps = <<mev.step>>

\* A new phase was appended to a run state that held another phase.
NewPhaseCreationWitness ==
  /\ mcount > 1
  /\ PrevIndex = 0
  /\ mprev.phases # <<>>
  /\ mdata.phases[Len(mdata.phases)].name = mev.phase

\* C8 as stated. Step append: for an event on an existing phase, whenever the
\* event's step differs from the last element of the phase's steps, steps
\* grows by exactly that step.
StepAppendUnlessLast ==
  mcount > 0 /\ PrevIndex # 0 =>
    LET old == mprev.phases[PrevIndex].steps
    IN  mev.step # old[Len(old)] =>
          mdata.phases[PrevIndex].steps = Append(old, mev.step)

\* C8 as amended. Step append: for an event on an existing phase, whenever the
\* event's step occurs nowhere in the phase's steps, steps grows by exactly
\* that step, which becomes its last element.
StepAppendIfAbsent ==
  mcount > 0 /\ PrevIndex # 0 =>
    LET old == mprev.phases[PrevIndex].steps
    IN  mev.step \notin Range(old) =>
          mdata.phases[PrevIndex].steps = Append(old, mev.step)

\* A step that was not in the list was appended to an existing phase that is
\* failure-locked.
StepAppendWitness ==
  /\ mcount > 1
  /\ PrevIndex # 0
  /\ mprev.phases[PrevIndex].color = FailureColor
  /\ mev.step \notin Range(mprev.phases[PrevIndex].steps)
  /\ Len(mdata.phases[PrevIndex].steps) = Len(mprev.phases[PrevIndex].steps) + 1

\* The run state after the last event was applied once to a fresh run.
AppliedOnce ==
  <<[name |-> mev.phase, status |-> mev.status, color |-> ColorOf(mev.color),
     is_final |-> mev.is_final, steps |-> <<mev.step>>]>>

\* C9. Idempotence: the same event applied twice in a row to a fresh run
\* yields one phase whose steps list has length 1 and whose name, status,
\* color, is_final and steps are those after the first application.
Idempotence ==
  mcount = 2 /\ mprev.phases = AppliedOnce =>
    /\ Len(mdata.phases) = 1
    /\ Len(mdata.phases[1].steps) = 1
    /\ mdata.phases = mprev.phases

\* An event was applied a second time to the run state it made of a fresh run.
IdempotenceWitness ==
  /\ mcount = 2
  /\ mprev.phases = AppliedOnce
  /\ mdata.phases[1].steps = <<mev.step>>

\* The phase named name is in phases with the failure color.
ShowsFailure(phases, name) ==
  LET k == FindPhase(phases, name, 1)
  IN  k # 0 /\ phases[k].color = FailureColor

\* C2. Failure is never overwritten under concurrency: once a stored run
\* record shows a phase with the failure color, no run record stored later
\* shows that phase with another color or without that phase.  Stated for the
\* interleavings in which every Slack call succeeds and no record grows old.
FailureNeverOverwritten ==
  [][ fails' = 0 /\ jumps' = 0 =>
        \A m \in RunRecords : \A k \in DOMAIN m.text.phases :
          m.text.phases[k].color = FailureColor =>
            \A w \in storage' \ storage :
              IsRunRecord(w) => ShowsFailure(w.text.phases, m.text.phases[k].name)
    ]_vars

\* The main-channel chat.postMessage calls that returned a ts.
MainPosts == { i \in Procs : pub[i].kind = "post" /\ pub[i].ts # None }

\* C3. At most one live outward message per run: in any interleaving, at most
\* one chat.postMessage to the main channel is issued for the run.  Stated for
\* the interleavings in which every Slack call succeeds and no record grows
\* old.
AtMostOneMainPost == fails = 0 /\ jumps = 0 => Cardinality(MainPosts) <= 1

\* The record a cleanup pass would select now: the run record of greatest ts.
IsCurrentRecord(m) == m \in RunRecords /\ \A o \in RunRecords : o.ts <= m.ts

\* The event e is applied in phases: its phase is there, with its step.
Applied(phases, e) ==
  LET k == FindPhase(phases, e.phase, 1)
  IN  k # 0 /\ e.step \in Range(phases[k].steps)

\* C6. No cross-phase lost update: when two invocations for different phases
\* overlap (each scans the storage channel before the other writes), then
\* after both have completed the stored run record holds both phases with
\* both events applied.  Stated for the interleavings in which every Slack
\* call succeeds and no record grows old.
NoCrossPhaseLostUpdate ==
  \A i, j \in Procs :
    ( /\ fails = 0 /\ jumps = 0
      /\ pc[i] = "done" /\ pc[j] = "done"
      /\ ev[i].phase # ev[j].phase
      /\ j \notin wroteBefore[i] /\ i \notin wroteBefore[j] )
    => \E m \in storage :
         /\ IsCurrentRecord(m)
         /\ Applied(m.text.phases, ev[i])
         /\ Applied(m.text.phases, ev[j])

\* The storage channel held no record of the run when invocation i scanned it.
FirstOfRun(i) == \A m \in scanned[i] : ~IsRunRecord(m)

\* Invocations i and j completed one after the other, every Slack call of
\* both succeeding, i being the first of the run.
FirstThenSecond(i, j) ==
  /\ i # j
  /\ pc[i] = "done" /\ pc[j] = "done"
  /\ clean[i] /\ clean[j]
  /\ FirstOfRun(i)
  /\ i \in doneBefore[j]

\* What C4 says of the two invocations.
Lifecycle(i, j) ==
  /\ pub[i].kind = "post"
  /\ pub[i].ts # None
  /\ \E m \in RunRecords : m.ts = data[i].storage_ts /\ m.text.message_ts = pub[i].ts
  /\ pub[j] = [kind |-> "update", ts |-> pub[i].ts]

AllClean == \A i \in Procs : clean[i]

\* What C5 says of invocation j and a run record m it scanned: j amends the
\* outward message of m, and the run state j stores names that same message.
Amends(j, m) ==
  /\ pub[j] = [kind |-> "update", ts |-> m.text.message_ts]
  /\ data[j].message_ts = m.text.message_ts

\* C5 as stated. messageId is never replaced: in a sequence of successful
\* sequential invocations, with any time between them, once message_ts is set
\* in the run record every later invocation amends that outward message and
\* the message_ts stored for the run stays the same.
MessageTsNeverReplaced ==
  Sequential /\ AllClean =>
    \A j \in Procs : \A m \in scanned[j] :
      pc[j] = "done" /\ IsRunRecord(m) /\ m.text.message_ts # None => Amends(j, m)

\* C5 as amended: the same, for the invocations that scan the run record no
\* more than ten hours after its ts.
MessageTsKeptInWindow ==
  Sequential /\ AllClean =>
    \A j \in Procs : \A m \in scanned[j] :
      /\ pc[j] = "done" /\ IsRunRecord(m) /\ m.text.message_ts # None
      /\ ~Expired(m, scanNow[j])
      => Amends(j, m)

\* Two successful invocations in a row have amended the outward message an
\* earlier invocation had created.
MessageTsKeptWitness ==
  /\ Sequential /\ AllClean
  /\ \A j \in Procs :
       /\ pc[j] = "done"
       /\ pub[j] = [kind |-> "update", ts |-> EarlierMessageTs]
       /\ EarlierRecord \in scanned[j] \/ doneBefore[j] # {}
  /\ \A r \in RunRecords : r.text.message_ts = EarlierMessageTs
  /\ \E j \in Procs : doneBefore[j] # {}

\* The cleanup pass of invocation i is over: its delete loop has ended, or an
\* exception has ended the pass.
PassOver(i) == pc[i] \notin {"idle", "delete"}

\* Message m is a duplicate for the invoking run in the pass of invocation i:
\* a record of the run within the window, with a newer one in the scan.
Duplicate(i, m) ==
  /\ IsRunRecord(m)
  /\ \E o \in scanned[i] : IsRunRecord(o) /\ ~Expired(o, scanNow[i]) /\ o.ts > m.ts

\* C10. Retention: in a cleanup pass, every bot-authored storage record whose
\* ts is more than ten hours before the pass's current time is issued a
\* delete and is not used as run state, whichever run it belongs to; a record
\* within the window that is no duplicate for the invoking run is issued no
\* delete.
Retention ==
  \A i \in Procs : PassOver(i) =>
    \A m \in scanned[i] :
      /\ m.bot /\ Expired(m, scanNow[i]) =>
           /\ m.ts \in delIssued[i]
           /\ found[i] # <<m>>
      /\ ~Expired(m, scanNow[i]) /\ ~Duplicate(i, m) => m.ts \notin delIssued[i]

\* The cleanup pass of invocation i, as its loop over the messages left it.
PassOf(i) == Cleanup(History(scanned[i]), scanNow[i])

\* C12. Best-effort deletes: once the delete loop of a cleanup pass is over, a
\* delete has been issued for every record the pass scheduled for deletion,
\* whichever deletes failed, and the invocation has gone on with the record
\* the pass selected and merged its event into it.
BestEffortDeletes ==
  \A i \in Procs : PassOver(i) =>
    LET pass == PassOf(i)
    IN  ~pass.aborted =>
          /\ delIssued[i] = Range(pass.to_delete)
          /\ found[i] = pass.pipeline_msg
          /\ found[i] # <<>> => data[i].storage_ts = found[i][1].ts
          /\ Applied(data[i].phases, ev[i])

\* An invocation has completed, with a main-channel call made, after a pass
\* that scheduled two deletes of which the first failed: its message is still
\* in the storage channel, the message of the second is not.
BestEffortDeletesWitness ==
  \E i \in Procs :
    /\ pc[i] = "done"
    /\ pub[i] # NoCall
    /\ Len(PassOf(i).to_delete) = 2
    /\ \E m \in storage : m.ts = PassOf(i).to_delete[1]
    /\ \A m \in storage : m.ts # PassOf(i).to_delete[2]

\* The run record invocation i found names an outward message that a user
\* has deleted.
FoundGone(i) == found[i] # <<>> /\ found[i][1].text.message_ts \in gone

\* C14. MessageNotFound fallback: when the run record has a message_ts and
\* amending that outward message fails because the message was deleted, the
\* invocation creates a new outward message and persists its ts as the run's
\* message_ts.  Stated for the invocations that run alone with no other call
\* failing.
MessageNotFoundFallback ==
  \A i \in Procs :
    Ended(i) /\ FoundGone(i) /\ i \in wrote /\ fails = 0 /\ Sequential =>
      /\ pc[i] = "done"
      /\ \E t \in mainMsgs \ gone :
           /\ pub[i] = [kind |-> "post", ts |-> t]
           /\ \E m \in RunRecords : m.text.message_ts = t

\* C16. Store read failure surfaces: when conversations.history fails for an
\* invocation, the invocation writes no run record and makes no call to the
\* main channel, and it ends in failure.
ScanFailureSurfaces ==
  \A i \in Procs : pc[i] # "idle" /\ ~scanOk[i] =>
    /\ i \notin wrote
    /\ pub[i] = NoCall
    /\ Ended(i) => pc[i] = "failed"

\* The call of invocation i to the main channel has failed.
PublishFailed(i) ==
  /\ pc[i] = "failed"
  /\ pub[i].kind = "update" \/ (pub[i].kind = "post" /\ pub[i].ts = None)

\* No invocation but i has started since i did.
NoneSince(i) == \A j \in Procs \ {i} : pc[j] = "idle" \/ j \in doneBefore[i]

\* The record invocation i keeps in pipeline_data is in the storage channel
\* as i wrote it, with the event of i in it.
StoredAsWritten(i) ==
  \E m \in storage :
    /\ m.ts = data[i].storage_ts
    /\ m.text.kind = "object"
    /\ m.text.phases = data[i].phases
    /\ m.text.message_ts = data[i].message_ts
    /\ Applied(m.text.phases, ev[i])

\* Invocation j started after i had ended, its scan succeeded, its pass ran
\* to the end and the record of i was no older than ten hours.
StartsAfter(i, j) ==
  /\ i \in doneBefore[j]
  /\ scanOk[j] /\ ~PassOf(j).aborted
  /\ ~(data[i].storage_ts < scanNow[j] - ten_hours)

\* The step in which invocation i makes its call to the main channel and the
\* call fails.
PublishFails(i) ==
  /\ pub[i] = NoCall /\ pub'[i] # NoCall
  /\ fails' # fails \/ pub'[i].ts \in gone

\* C15. Publish failure leaves the persisted state: the step in which the
\* call to the main channel fails ends the invocation in failure and leaves
\* the storage channel as it is; with no other invocation running, the stored
\* run record is then the one the preceding store write wrote, with the
\* merged event, and the next invocation loads it.
PublishFailureKeepsState ==
  /\ [][\A i \in Procs : PublishFails(i) => pc'[i] = "failed" /\ storage' = storage]_vars
  /\ [](\A i \in Procs : PublishFailed(i) =>
          /\ NoneSince(i) => StoredAsWritten(i)
          /\ \A j \in Procs : StartsAfter(i, j) =>
               /\ found[j] # <<>>
               /\ found[j][1].ts = data[i].storage_ts
               /\ found[j][1].text.phases = data[i].phases)

\* An invocation's call to the main channel has failed, and the next
\* invocation has loaded the record it left.
PublishFailureWitness ==
  \E i, j \in Procs :
    /\ PublishFailed(i) /\ fails > 0
    /\ StartsAfter(i, j)
    /\ found[j] # <<>> /\ found[j][1].text.phases = data[i].phases
    /\ Applied(found[j][1].text.phases, ev[i])

\* C17. Association follows creation: in every state, whatever calls have
\* failed and wherever an invocation has stopped, every stored record of the
\* run with a message_ts names an outward message that has been created.
AssociationFollowsCreation ==
  \A m \in RunRecords : m.text.message_ts # None => m.text.message_ts \in mainMsgs

\* A record names the message its invocation created, in a run where a call
\* has failed and an invocation has ended in failure.
AssociationWitness ==
  \E i, j \in Procs :
    /\ pc[j] = "failed" /\ fails > 0
    /\ pub[i].kind = "post" /\ pub[i].ts \in mainMsgs
    /\ \E m \in RunRecords : m.text.message_ts = pub[i].ts

\* C18. Phase names are unique: after any interleaving of invocations, with
\* any calls failing, no stored record holds two phases of the same name.
UniquePhaseNames ==
  \A m \in storage : m.text.kind = "object" =>
    \A a, b \in 1..Len(m.text.phases) :
      a # b => m.text.phases[a].name # m.text.phases[b].name

\* Overlapping invocations have left a record of two phases, one of them
\* having merged an event for a phase the record it loaded already held.
UniquePhaseNamesWitness ==
  /\ ~Sequential
  /\ \E m \in RunRecords : Len(m.text.phases) = 2
  /\ \E i \in wrote :
       found[i] # <<>> /\ FindPhase(found[i][1].text.phases, ev[i].phase, 1) # 0

\* Sequence a is a prefix of sequence b.
IsPrefix(a, b) == Len(a) <= Len(b) /\ SubSeq(b, 1, Len(a)) = a

\* The phases new keep the names of the phases old, in order, as a prefix,
\* and each of these phases keeps its old steps as a prefix.
PhasesPrefix(old, new) ==
  /\ Len(old) <= Len(new)
  /\ \A k \in 1..Len(old) :
       new[k].name = old[k].name /\ IsPrefix(old[k].steps, new[k].steps)

\* C19. Steps and phases are append-only: for successful sequential
\* invocations within the retention window, the record an invocation stores
\* has the phase names of the record it scanned as a prefix, in order, and
\* each phase's steps has that phase's previous steps as a prefix.
AppendOnly ==
  Sequential /\ AllClean =>
    \A j \in wrote : \A m \in scanned[j] :
      IsRunRecord(m) /\ ~Expired(m, scanNow[j]) =>
        /\ PhasesPrefix(m.text.phases, data[j].phases)
        /\ NoneSince(j) =>
             \E r \in RunRecords : r.ts = m.ts /\ r.text.phases = data[j].phases

\* Two successful invocations in a row have grown the record by a step and
\* by a phase.
AppendOnlyWitness ==
  /\ Sequential /\ AllClean
  /\ \A j \in Procs : pc[j] = "done" /\ found[j] # <<>>
  /\ \E r \in RunRecords :
       Len(r.text.phases) = 2 /\ Len(r.text.phases[1].steps) = 2

\* ------------------------------------------- claims on the cleanup pass
\* The pass of the cleanup-only specification is over.
PassEnded == cpass.state \in {"returned", "aborted"}

\* What the pass returns: nothing when an exception left it.
PassReturned == IF cpass.aborted THEN <<>> ELSE cpass.pipeline_msg

\* The ts the pass has issued chat.delete for.
PassIssued == { cpass.to_delete[k] : k \in 1..cpass.issued }

\* The records of the invoking run in the scan, within the retention window.
ScanRunRecords ==
  { m \in Range(cmessages) :
      /\ m.bot /\ ~Expired(m, PassTime)
      /\ m.text.kind = "object" /\ m.text.workflow_id = workflow_id }

\* The scan lists two records of the run with the older one first.
OlderFirst ==
  \E k, l \in 1..Len(cmessages) :
    /\ k < l /\ cmessages[k].ts < cmessages[l].ts
    /\ cmessages[k] \in ScanRunRecords /\ cmessages[l] \in ScanRunRecords

\* C11. Duplicate collapse: when the scan holds several records of the
\* invoking run within the retention window, in any order, the pass returns
\* the one with the greatest ts and issues a delete for each of the others.
DuplicateCollapse ==
  PassEnded /\ Cardinality(ScanRunRecords) >= 2 =>
    \E r \in ScanRunRecords :
      /\ \A m \in ScanRunRecords : m.ts <= r.ts
      /\ PassReturned = <<r>>
      /\ \A m \in ScanRunRecords \ {r} : m.ts \in PassIssued

\* A malformed record within the window: a bot message whose text is not
\* JSON, or is JSON without the fields of a record.
Malformed(m) ==
  m.bot /\ ~Expired(m, PassTime) /\ m.text.kind \in {"notjson", "nonobject"}

\* The scan without its malformed records.
RECURSIVE WellFormed(_)
WellFormed(messages) ==
  IF messages = <<>> THEN <<>>
  ELSE IF Malformed(Head(messages)) THEN WellFormed(Tail(messages))
  ELSE <<Head(messages)>> \o WellFormed(Tail(messages))

\* C13. Malformed records are skipped: a malformed record within the window
\* is neither returned nor scheduled for deletion and does not stop the scan,
\* and the pass returns and schedules for deletion what it would with the
\* malformed records absent from the scan.
MalformedSkipped ==
  cpass.state # "none" =>
    LET r == Cleanup(WellFormed(cmessages), PassTime)
    IN  /\ ~cpass.aborted
        /\ cpass.pipeline_msg = r.pipeline_msg
        /\ cpass.to_delete = r.to_delete
        /\ \A m \in Range(cmessages) :
             Malformed(m) => cpass.pipeline_msg # <<m>> /\ m.ts \notin Range(cpass.to_delete)

\* C20. Cleanup never deletes what it returns: for any scan in any order, the
\* record the pass returns is not among those it schedules for deletion, and
\* when the delete loop has ended the record is still in the storage channel,
\* where the chat.update of _save_pipeline_data finds it.
ReturnedNotDeleted ==
  cpass.state # "none" /\ PassReturned # <<>> =>
    /\ PassReturned[1].ts \notin Range(cpass.to_delete)
    /\ PassReturned[1] \in cstore

\* A pass over a scan that lists an older record of the run before a newer
\* one has returned a record and issued its deletes.
ReturnedNotDeletedWitness ==
  /\ cpass.state = "returned"
  /\ PassReturned # <<>>
  /\ cpass.issued >= 2
  /\ OlderFirst

====
